---- MODULE Spec2Model ----
(***************************************************************************)
(* Model of the bus-timetable service in src/app/main.py: the sorter       *)
(* (sort_bus_records), the template filter relative_timestamp, and the     *)
(* /upload handler with the sqlite table it writes to.                     *)
(*                                                                         *)
(* Text is modelled by TLA+ strings; a CSV text is a sequence of lines,    *)
(* a line a sequence of cells (the comma/quote tokenisation done by the    *)
(* csv module is not modelled).  Times of day are whole seconds and the    *)
(* local time zone is UTC.                                                 *)
(***************************************************************************)
EXTENDS Integers, Sequences, FiniteSets, Bags, TLC

VARIABLES
    sortIn, sortOut, sortPc,          \* sort_bus_records: argument, list after the call, position
    relNow, relBus, relOut, relPc,    \* relative_timestamp: datetime.now(), bus time, label, position
    parseName, parseText, parseOut, parsePc,  \* lines 194-226 alone: file name, CSV text, outcome, position
    timetable,      \* the rows of table timetable, in insertion order
    pdfFile,        \* data/pdf/<timestamp>.pdf: the document stored under each timestamp, 0 for none
    csvFile,        \* data/csv/<timestamp>.csv: the document whose table was written there, 0 for none
    pc,             \* position of each upload handler
    message,        \* the e-mail each handler received: Date timestamp and attached document
    converting,     \* the document the conversion thread read from the pdf path, 0 before
    raw_csv,        \* the document whose CSV text the handler read back, 0 before
    batch,          \* what lines 194-226 produced: records, or the exception
    failed,         \* the handler's failed counter
    accepted,       \* the records whose INSERT went through, per handler (history)
    response,       \* the text the handler returned
    seen,           \* the table's rows when the request arrived (history)
    ingested,       \* (document, document whose table was read) of the uploads answered (history)
    prior           \* ingested, as it was when the handler received its e-mail (history)

sortVars == <<sortIn, sortOut, sortPc>>
relVars == <<relNow, relBus, relOut, relPc>>
parseVars == <<parseName, parseText, parseOut, parsePc>>
fileVars == <<pdfFile, csvFile>>
handlerVars == <<pc, message, converting, raw_csv, batch, failed, accepted, response, seen, ingested, prior>>
uploadVars == <<timetable, fileVars, handlerVars>>
vars == <<sortVars, relVars, parseVars, uploadVars>>

(***************************************************************************)
(* Bounds                                                                  *)
(***************************************************************************)
MaxLen == 3        \* longest list handed to sort_bus_records
NumHandlers == 2   \* upload requests in flight
MaxLines == 4      \* longest CSV text parsed on its own

(***************************************************************************)
(* Calendar arithmetic of datetime (proleptic Gregorian ordinals)          *)
(***************************************************************************)
SecondsPerDay == 86400
EpochOrdinal == 719163      \* date(1970, 1, 1).toordinal()

IsLeap(year) == year % 4 = 0 /\ (year % 100 # 0 \/ year % 400 = 0)

DaysInMonth(year, month) ==
    IF month = 2 THEN (IF IsLeap(year) THEN 29 ELSE 28)
    ELSE IF month \in {4, 6, 9, 11} THEN 30 ELSE 31

RECURSIVE DaysBeforeMonth(_, _)
DaysBeforeMonth(year, month) ==
    IF month = 1 THEN 0
    ELSE DaysBeforeMonth(year, month - 1) + DaysInMonth(year, month - 1)

DaysBeforeYear(year) ==
    LET y == year - 1 IN y * 365 + (y \div 4) - (y \div 100) + (y \div 400)

ValidDate(year, month, day) ==
    /\ month \in 1..12
    /\ day \in 1..DaysInMonth(year, month)

\* date.toordinal()
ToOrdinal(d) == DaysBeforeYear(d.year) + DaysBeforeMonth(d.year, d.month) + d.day

\* date.weekday(): Monday is 0
Weekday(ordinal) == (ordinal + 6) % 7

\* datetime.timestamp() of a naive local datetime
Timestamp(dt) == (ToOrdinal(dt) - EpochOrdinal) * SecondsPerDay + dt.sec

(***************************************************************************)
(* sort_bus_records                                                        *)
(* A record is the 6-tuple (departure_time, vehicle, location,             *)
(* target_group, destination, comments); Python index 0 is TLA+ index 1.   *)
(***************************************************************************)
\* the comparison with <= in place of <
BeforeOrEqual(insert, other) == insert[1] <= other[1]

\* insert[0] < records[j - 1][0]
Before(insert, other) == insert[1] < other[1]

\* the while loop and the assignment after it, from (records, insert, j)
RECURSIVE ShiftDown(_, _, _)
ShiftDown(records, insert, j) ==
    IF j > 0 /\ Before(insert, records[j])
    THEN ShiftDown([records EXCEPT ![j + 1] = records[j]], insert, j - 1)
    ELSE [records EXCEPT ![j + 1] = insert]

\* the for loop, from index i
RECURSIVE ForEach(_, _)
ForEach(records, i) ==
    IF i >= Len(records) THEN records
    ELSE ForEach(ShiftDown(records, records[i + 1], i), i + 1)

sort_bus_records(records) == ForEach(records, 1)

\* inputs of the sorter
SortTimes == {100, 200, 300}
SortVehicles == {"Bus1", "Bus2"}
SortRecords == {<<t, v, "Campus", "Staff", "City", "">> : t \in SortTimes, v \in SortVehicles}
SortInputs == UNION {[1..n -> SortRecords] : n \in 0..MaxLen}

SortInit ==
    /\ sortIn \in SortInputs
    /\ sortOut = sortIn
    /\ sortPc = "call"

SortCall ==
    /\ sortPc = "call"
    /\ sortOut' = sort_bus_records(sortIn)
    /\ sortPc' = "done"
    /\ UNCHANGED <<sortIn, relVars, parseVars, uploadVars>>

(***************************************************************************)
(* relative_timestamp                                                      *)
(***************************************************************************)
\* bus_time - now as a normalised timedelta (days, seconds)
Delta(bus_time, now) ==
    LET diff == Timestamp(bus_time) - Timestamp(now)
        days == IF diff >= 0 THEN diff \div SecondsPerDay
                ELSE -((-diff + SecondsPerDay - 1) \div SecondsPerDay)
    IN [days |-> days, seconds |-> diff - days * SecondsPerDay]

relative_timestamp(bus_time, now) ==
    LET delta == Delta(bus_time, now)
        hours == delta.seconds \div 3600
        seconds == delta.seconds % 3600
        minutes == seconds \div 60
    IN IF delta.days < 0 THEN "MISSED"
       ELSE IF bus_time.day > now.day
            THEN (IF bus_time.day - now.day = 1 THEN "tomorrow"
                  ELSE "in " \o ToString(bus_time.day - now.day) \o " days")
       ELSE IF hours = 0 /\ minutes = 0 THEN "NOW"
       ELSE "in "
            \o (IF hours # 0 THEN ToString(hours) \o " hr " ELSE "")
            \o (IF minutes # 0 THEN ToString(minutes) \o " min" ELSE "")

\* inputs of the filter
RelDates == {
    [year |-> 2023, month |-> 12, day |-> 31],
    [year |-> 2024, month |-> 1, day |-> 1],
    [year |-> 2024, month |-> 1, day |-> 15],
    [year |-> 2024, month |-> 1, day |-> 16],
    [year |-> 2024, month |-> 1, day |-> 18],
    [year |-> 2024, month |-> 1, day |-> 31],
    [year |-> 2024, month |-> 2, day |-> 1],
    [year |-> 2024, month |-> 2, day |-> 17]}
RelSeconds == {0, 59, 30600, 41400, 86399}
RelDatetimes ==
    {[year |-> d.year, month |-> d.month, day |-> d.day, sec |-> s] : d \in RelDates, s \in RelSeconds}

RelInit ==
    /\ relNow \in RelDatetimes
    /\ relBus \in RelDatetimes
    /\ relOut = ""
    /\ relPc = "call"

RelCall ==
    /\ relPc = "call"
    /\ relOut' = relative_timestamp(relBus, relNow)
    /\ relPc' = "done"
    /\ UNCHANGED <<relNow, relBus, sortVars, parseVars, uploadVars>>

(***************************************************************************)
(* Text helpers (str methods and the re module on strings)                 *)
(***************************************************************************)
Char(s, i) == SubSeq(s, i, i)

DigitChars == {"0", "1", "2", "3", "4", "5", "6", "7", "8", "9"}

\* str.isdigit()
IsDigit(s) == Len(s) > 0 /\ \A i \in 1..Len(s) : Char(s, i) \in DigitChars

\* int() of a string of digits
RECURSIVE ToInt(_)
ToInt(s) ==
    IF Len(s) = 0 THEN 0
    ELSE 10 * ToInt(SubSeq(s, 1, Len(s) - 1))
         + (CHOOSE n \in 0..9 : ToString(n) = Char(s, Len(s)))

\* ' '.join(values)
RECURSIVE Join(_)
Join(values) ==
    IF Len(values) = 0 THEN ""
    ELSE IF Len(values) = 1 THEN values[1]
    ELSE values[1] \o " " \o Join(Tail(values))

\* str.replace('\n', ' ')
RECURSIVE ReplaceNewlines(_)
ReplaceNewlines(s) ==
    IF Len(s) = 0 THEN ""
    ELSE (IF Char(s, 1) = "\n" THEN " " ELSE Char(s, 1))
         \o ReplaceNewlines(SubSeq(s, 2, Len(s)))

\* re.search(r'\d{4}', s): start of the leftmost four consecutive digits, 0 for no match
SearchFourDigits(s) ==
    LET starts == {i \in 1..(Len(s) - 3) : IsDigit(SubSeq(s, i, i + 3))}
    IN IF starts = {} THEN 0 ELSE CHOOSE i \in starts : \A k \in starts : i <= k

(***************************************************************************)
(* The date token of the attachment's file name                            *)
(* A file name is modelled by the list its split() returns.                *)
(***************************************************************************)
timestamp_length == 6

\* the tokens the filter lets through, in order
DateTokens(filename) ==
    SelectSeq(filename, LAMBDA string : IsDigit(string) /\ Len(string) = timestamp_length)

\* next(filter(...)): the first token let through, <<>> standing for StopIteration
FirstDateToken(filename) ==
    LET tokens == DateTokens(filename)
    IN IF Len(tokens) = 0 THEN <<>> ELSE <<tokens[1]>>

\* datetime.strptime(token, '%d%m%y') as a date, <<>> standing for ValueError
Strptime(token) ==
    LET d == ToInt(SubSeq(token, 1, 2))
        m == ToInt(SubSeq(token, 3, 4))
        y == ToInt(SubSeq(token, 5, 6))
        year == IF y <= 68 THEN 2000 + y ELSE 1900 + y
    IN IF ValidDate(year, m, d) THEN <<[year |-> year, month |-> m, day |-> d]>> ELSE <<>>

\* day -= timedelta(days=day.weekday()), on ordinals
RollBackToMonday(ordinal) == ordinal - Weekday(ordinal)

(***************************************************************************)
(* Chunks: re.split(r'^(?=Time)', raw_csv, flags=re.MULTILINE), strip,     *)
(* filter(None, ...)                                                       *)
(***************************************************************************)
\* a line at whose start the pattern matches
StartsWithTime(line) ==
    /\ Len(line) > 0
    /\ Len(line[1]) >= 4
    /\ SubSeq(line[1], 1, 4) = "Time"

\* the pieces of re.split: the text before the first match, then one piece per match
RECURSIVE ReSplit(_, _, _)
ReSplit(lines, k, pieces) ==
    IF k > Len(lines) THEN pieces
    ELSE IF StartsWithTime(lines[k])
         THEN ReSplit(lines, k + 1, Append(pieces, <<lines[k]>>))
         ELSE ReSplit(lines, k + 1, [pieces EXCEPT ![Len(pieces)] = Append(@, lines[k])])

\* chunk.strip(): blank lines at either end go
RECURSIVE Strip(_)
Strip(chunk) ==
    IF Len(chunk) = 0 THEN chunk
    ELSE IF chunk[1] = <<>> THEN Strip(Tail(chunk))
    ELSE IF chunk[Len(chunk)] = <<>> THEN Strip(SubSeq(chunk, 1, Len(chunk) - 1))
    ELSE chunk

StripAll(pieces) == [k \in 1..Len(pieces) |-> Strip(pieces[k])]

\* filter(None, ...): empty pieces are dropped
FilterNone(pieces) == SelectSeq(pieces, LAMBDA chunk : chunk # <<>>)

Chunks(text) == FilterNone(StripAll(ReSplit(text, 1, <<<<>>>>)))

(***************************************************************************)
(* Rows of one chunk: csv.DictReader and the buffer loop                   *)
(* A row dict is the list of its cells under the chunk's field names.      *)
(***************************************************************************)
MandatoryKeys == <<"Time", "Vehicle", "From", "Group", "Destination">>

HasKey(fieldnames, key) == \E k \in 1..Len(fieldnames) : fieldnames[k] = key

\* the cell row[key] comes from; a name that occurs twice maps to its last cell
KeyIndex(fieldnames, key) ==
    CHOOSE k \in 1..Len(fieldnames) :
        /\ fieldnames[k] = key
        /\ \A n \in 1..Len(fieldnames) : fieldnames[n] = key => n <= k

\* row[key] is None: DictReader fills the missing cells of a short row with None
IsNone(fieldnames, row, key) == KeyIndex(fieldnames, key) > Len(row)

\* row[key], a string
Get(fieldnames, row, key) == row[KeyIndex(fieldnames, key)]

\* all(raw_row_data[key] for key in (...)), evaluated key by key from position n:
\* "KeyError", "yes" or "no"
RECURSIVE AllMandatory(_, _, _)
AllMandatory(fieldnames, raw_row_data, n) ==
    IF n > Len(MandatoryKeys) THEN "yes"
    ELSE IF ~HasKey(fieldnames, MandatoryKeys[n]) THEN "KeyError"
    ELSE IF IsNone(fieldnames, raw_row_data, MandatoryKeys[n]) THEN "no"
    ELSE IF Get(fieldnames, raw_row_data, MandatoryKeys[n]) = "" THEN "no"
    ELSE AllMandatory(fieldnames, raw_row_data, n + 1)

\* {key: ' '.join(line[key] for line in buffer).replace('\n', ' ') for key in raw_row_data}
MergeBuffer(fieldnames, buffer) ==
    [c \in 1..Len(fieldnames) |->
        ReplaceNewlines(Join([b \in 1..Len(buffer) |-> Get(fieldnames, buffer[b], fieldnames[c])]))]

\* the record of one merged row on the day with ordinal day, or the exception raised
MakeRecord(fieldnames, row, day) ==
    LET field == Get(fieldnames, row, "Time")
        at == SearchFourDigits(field)
        time == SubSeq(field, at, at + 3)
        hour == ToInt(SubSeq(time, 1, 2))
        minute == ToInt(SubSeq(time, 3, 4))
    IN IF at = 0 THEN [err |-> "AttributeError"]
       ELSE IF hour > 23 \/ minute > 59 THEN [err |-> "ValueError"]
       ELSE IF ~HasKey(fieldnames, "Comments") THEN [err |-> "KeyError"]
       ELSE [err |-> "",
             record |-> <<(day - EpochOrdinal) * SecondsPerDay + hour * 3600 + minute * 60,
                          Get(fieldnames, row, "Vehicle"),
                          Get(fieldnames, row, "From"),
                          Get(fieldnames, row, "Group"),
                          Get(fieldnames, row, "Destination"),
                          Get(fieldnames, row, "Comments")>>]

\* the inner for loop over the rows of a chunk, from line k of the chunk (line 1 is
\* the header); rows collects the merged rows in the order they are built
RECURSIVE ReadRows(_, _, _, _, _, _)
ReadRows(lines, k, buffer, records, rows, day) ==
    LET fieldnames == lines[1]
        raw_row_data == lines[k]
        buffered == Append(buffer, raw_row_data)
        complete == AllMandatory(fieldnames, raw_row_data, 1)
        row == MergeBuffer(fieldnames, buffered)
        made == MakeRecord(fieldnames, row, day)
    IN IF k > Len(lines) THEN [err |-> "", records |-> records, rows |-> rows]
       ELSE IF raw_row_data = <<>> THEN ReadRows(lines, k + 1, buffer, records, rows, day)
       ELSE IF complete = "KeyError" THEN [err |-> "KeyError", records |-> records, rows |-> rows]
       ELSE IF complete = "no" THEN ReadRows(lines, k + 1, buffered, records, rows, day)
       ELSE IF \E b \in 1..Len(buffered) : Len(buffered[b]) < Len(fieldnames)
            THEN [err |-> "TypeError", records |-> records, rows |-> rows]
       ELSE IF made.err # ""
            THEN [err |-> made.err, records |-> records, rows |-> Append(rows, row)]
       ELSE ReadRows(lines, k + 1, <<>>, Append(records, made.record), Append(rows, row), day)

\* the outer for loop over the chunks, from chunk c; rows holds one list per chunk read
RECURSIVE ReadChunks(_, _, _, _, _)
ReadChunks(chunks, c, records, rows, day) ==
    LET read == ReadRows(chunks[c], 2, <<>>, records, <<>>, day)
    IN IF c > Len(chunks) THEN [err |-> "", records |-> records, rows |-> rows]
       ELSE IF read.err # ""
            THEN [err |-> read.err, records |-> read.records, rows |-> Append(rows, read.rows)]
       ELSE ReadChunks(chunks, c + 1, read.records, Append(rows, read.rows), day + 1)

\* lines 194-226 of upload: the parsed and sorted batch, or the exception raised
ParseUpload(filename, text) ==
    LET token == FirstDateToken(filename)
        date == Strptime(token[1])
        monday == RollBackToMonday(ToOrdinal(date[1]))
        read == ReadChunks(Chunks(text), 1, <<>>, <<>>, monday)
    IN IF token = <<>> THEN [err |-> "StopIteration", records |-> <<>>, parsed |-> <<>>, rows |-> <<>>]
       ELSE IF date = <<>> THEN [err |-> "ValueError", records |-> <<>>, parsed |-> <<>>, rows |-> <<>>]
       ELSE IF read.err # "" THEN [err |-> read.err, records |-> <<>>, parsed |-> read.records, rows |-> read.rows]
       ELSE [err |-> "", records |-> sort_bus_records(read.records),
             parsed |-> read.records, rows |-> read.rows]

(***************************************************************************)
(* Uploaded documents                                                      *)
(***************************************************************************)
Header == <<"Time", "Vehicle", "From", "Group", "Destination", "Comments">>
Row0830 == <<"0830", "Bus1", "Campus", "Staff", "City", "">>
Row0900 == <<"0900", "Bus2", "Campus", "Staff", "City", "">>

\* the end-to-end scenario: two day sections of one complete row
TwoDays == <<Header, Row0830, Header, Row0830>>
\* a Time cell without four digits, followed by good rows
BadTime == <<Header, <<"8am", "Bus1", "Campus", "Staff", "City", "">>, Row0900, Header, Row0830>>
\* the same complete row twice in one section
Duplicate == <<Header, Row0830, Row0830>>
\* rows out of time order, two of them at the same time
Unsorted == <<Header, Row0900, Row0830, <<"0900", "Bus1", "SMC", "Staff", "City", "">>>>

Monday == <<"Transport", "Schedule", "150124", ".pdf">>
Wednesday == <<"Transport", "Schedule", "170124", ".pdf">>
NoToken == <<"Transport", "Schedule", ".pdf">>
TwoTokens == <<"Transport", "Schedule", "150124", "220124", ".pdf">>
NoSuchDay == <<"Transport", "Schedule", "310224", ".pdf">>

\* a document: the attachment's file name and the table tabula extracts from it
Documents == <<
    [filename |-> Monday, table |-> TwoDays],
    [filename |-> Wednesday, table |-> TwoDays],
    [filename |-> Monday, table |-> Duplicate],
    [filename |-> Monday, table |-> Unsorted],
    [filename |-> Monday, table |-> BadTime],
    [filename |-> NoToken, table |-> TwoDays],
    [filename |-> TwoTokens, table |-> TwoDays]>>

DocumentIds == 1..Len(Documents)
EmailDates == {1705300000, 1705300060}      \* int(parse(message.get('Date')).timestamp())
Messages == [date : EmailDates, doc : {0} \cup DocumentIds]      \* doc 0: no valid attachment
Handlers == 1..NumHandlers      \* the requests, numbered in order of arrival

(***************************************************************************)
(* The table and the upload handler                                        *)
(***************************************************************************)
\* a table without the PRIMARY KEY clause
NoPrimaryKey(table, record) == FALSE

\* PRIMARY KEY (departure_time, vehicle, location, target_group, destination, comments):
\* the INSERT raises sqlite3.IntegrityError
Conflicts(table, record) == \E k \in 1..Len(table) : table[k] = record

\* the text of lines 249-251 (the warning sign of the original is left out)
Response(count, failures) ==
    ToString(count) \o " bus record" \o (IF count # 1 THEN "s" ELSE "") \o " added"
    \o (IF failures # 0 THEN " (" \o ToString(failures) \o " invalid records ignored)" ELSE "")

\* the insert loop of lines 229-245 from record k, on [table, failed, accepted]
RECURSIVE InsertAll(_, _, _)
InsertAll(state, records, k) ==
    IF k > Len(records) THEN state
    ELSE IF Conflicts(state.table, records[k])
         THEN InsertAll([state EXCEPT !.failed = @ + 1], records, k + 1)
         ELSE InsertAll([state EXCEPT !.table = Append(@, records[k]),
                                      !.accepted = Append(@, records[k])], records, k + 1)

NoBatch == [err |-> "", records |-> <<>>, parsed |-> <<>>, rows |-> <<>>]

\* what lines 194-226 make of each document's file name and each document's table
Batches ==
    [own \in DocumentIds |-> [read \in DocumentIds |->
        ParseUpload(Documents[own].filename, Documents[read].table)]]

UploadInit ==
    /\ timetable = <<>>
    /\ pdfFile = [d \in EmailDates |-> 0]
    /\ csvFile = [d \in EmailDates |-> 0]
    /\ pc = [h \in Handlers |-> "idle"]
    /\ message = [h \in Handlers |-> [date |-> 0, doc |-> 0]]
    /\ converting = [h \in Handlers |-> 0]
    /\ raw_csv = [h \in Handlers |-> 0]
    /\ batch = [h \in Handlers |-> NoBatch]
    /\ failed = [h \in Handlers |-> 0]
    /\ accepted = [h \in Handlers |-> <<>>]
    /\ response = [h \in Handlers |-> ""]
    /\ seen = [h \in Handlers |-> <<>>]
    /\ ingested = {}
    /\ prior = [h \in Handlers |-> {}]

\* lines 150-171: the request is read and the e-mail has no valid attachment
ReceiveNoAttachment(h, m) ==
    /\ pc[h] = "idle"
    /\ \A g \in Handlers : g < h => pc[g] # "idle"
    /\ m.doc = 0
    /\ message' = [message EXCEPT ![h] = m]
    /\ prior' = [prior EXCEPT ![h] = ingested]
    /\ seen' = [seen EXCEPT ![h] = timetable]
    /\ response' = [response EXCEPT ![h] = "Email received, no valid attachment found"]
    /\ pc' = [pc EXCEPT ![h] = "done"]
    /\ UNCHANGED <<timetable, fileVars, converting, raw_csv, batch, failed, accepted, ingested>>
    /\ UNCHANGED <<sortVars, relVars, parseVars>>

\* lines 150-181: the attachment is saved and the conversion is handed to a thread
Receive(h, m) ==
    /\ pc[h] = "idle"
    /\ \A g \in Handlers : g < h => pc[g] # "idle"
    /\ m.doc # 0
    /\ message' = [message EXCEPT ![h] = m]
    /\ prior' = [prior EXCEPT ![h] = ingested]
    /\ seen' = [seen EXCEPT ![h] = timetable]
    /\ pdfFile' = [pdfFile EXCEPT ![m.date] = m.doc]
    /\ pc' = [pc EXCEPT ![h] = "convert"]
    /\ UNCHANGED <<timetable, csvFile, converting, raw_csv, batch, failed, accepted, response, ingested>>
    /\ UNCHANGED <<sortVars, relVars, parseVars>>

\* lines 181-187, in the thread: tabula reads the file at the pdf path
ConvertRead(h) ==
    /\ pc[h] = "convert"
    /\ converting' = [converting EXCEPT ![h] = pdfFile[message[h].date]]
    /\ pc' = [pc EXCEPT ![h] = "converting"]
    /\ UNCHANGED <<timetable, fileVars, message, raw_csv, batch, failed, accepted, response, seen, ingested, prior>>
    /\ UNCHANGED <<sortVars, relVars, parseVars>>

\* lines 181-187, in the thread: tabula writes the table to the csv path
ConvertWrite(h) ==
    /\ pc[h] = "converting"
    /\ csvFile' = [csvFile EXCEPT ![message[h].date] = converting[h]]
    /\ pc' = [pc EXCEPT ![h] = "converted"]
    /\ UNCHANGED <<timetable, pdfFile, message, converting, raw_csv, batch, failed, accepted, response, seen, ingested, prior>>
    /\ UNCHANGED <<sortVars, relVars, parseVars>>

\* what lines 191-226 make of the handler's file name and the csv file it reads
Parsed(h) == Batches[message[h].doc][csvFile[message[h].date]]

\* lines 189-226, an exception raised: the request fails, nothing is inserted
ProcessFail(h) ==
    /\ pc[h] = "converted"
    /\ \E parsed \in {Parsed(h)} :
           /\ parsed.err # ""
           /\ batch' = [batch EXCEPT ![h] = parsed]
    /\ raw_csv' = [raw_csv EXCEPT ![h] = csvFile[message[h].date]]
    /\ response' = [response EXCEPT ![h] = "500 Internal Server Error"]
    /\ pc' = [pc EXCEPT ![h] = "failed"]
    /\ UNCHANGED <<timetable, fileVars, message, converting, failed, accepted, seen, ingested, prior>>
    /\ UNCHANGED <<sortVars, relVars, parseVars>>

\* lines 189-254, run without an await in between: the batch is parsed, sorted and
\* inserted, the transaction committed and the answer returned
Process(h) ==
    /\ pc[h] = "converted"
    /\ \E parsed \in {Parsed(h)} :
           /\ parsed.err = ""
           /\ batch' = [batch EXCEPT ![h] = parsed]
           /\ \E after \in {InsertAll([table |-> timetable, failed |-> 0, accepted |-> <<>>],
                                      parsed.records, 1)} :
                  /\ timetable' = after.table
                  /\ failed' = [failed EXCEPT ![h] = after.failed]
                  /\ accepted' = [accepted EXCEPT ![h] = after.accepted]
                  /\ response' = [response EXCEPT ![h] = Response(Len(parsed.records), after.failed)]
    /\ raw_csv' = [raw_csv EXCEPT ![h] = csvFile[message[h].date]]
    /\ ingested' = ingested \cup {<<message[h].doc, csvFile[message[h].date]>>}
    /\ pc' = [pc EXCEPT ![h] = "done"]
    /\ UNCHANGED <<fileVars, message, converting, seen, prior>>
    /\ UNCHANGED <<sortVars, relVars, parseVars>>

UploadNext ==
    \E h \in Handlers :
        \/ \E m \in Messages : ReceiveNoAttachment(h, m)
        \/ \E m \in Messages : Receive(h, m)
        \/ ConvertRead(h)
        \/ ConvertWrite(h)
        \/ ProcessFail(h)
        \/ Process(h)

(***************************************************************************)
(* Lines 194-226 on their own, over every short CSV text                   *)
(***************************************************************************)
ParseLines == {
    Header, Row0830, Row0900,
    <<"8am", "Bus1", "Campus", "Staff", "City", "">>,
    <<"", "", "", "", "Long", "via\nMES">>,
    <<"Transport Schedule">>,
    <<>>}
ParseTexts == UNION {[1..n -> ParseLines] : n \in 0..MaxLines}
ParseNames == {Monday, Wednesday, NoToken, TwoTokens, NoSuchDay}

ParseInit ==
    /\ parseName \in ParseNames
    /\ parseText \in ParseTexts
    /\ parseOut = NoBatch
    /\ parsePc = "call"

ParseCall ==
    /\ parsePc = "call"
    /\ parseOut' = ParseUpload(parseName, parseText)
    /\ parsePc' = IF parseOut'.err = "" THEN "done" ELSE "raised"
    /\ UNCHANGED <<parseName, parseText, sortVars, relVars, uploadVars>>

(***************************************************************************)
(* Specifications                                                          *)
(***************************************************************************)
SortIdle == sortIn = <<>> /\ sortOut = <<>> /\ sortPc = "idle"
RelIdle ==
    /\ relNow = [year |-> 2024, month |-> 1, day |-> 15, sec |-> 0]
    /\ relBus = relNow
    /\ relOut = ""
    /\ relPc = "idle"

ParseIdle ==
    /\ parseName = <<>>
    /\ parseText = <<>>
    /\ parseOut = NoBatch
    /\ parsePc = "idle"

Init == UploadInit /\ SortIdle /\ RelIdle /\ ParseIdle
Next == UploadNext
Spec == Init /\ [][Next]_vars

InitSort == SortInit /\ RelIdle /\ ParseIdle /\ UploadInit
NextSort == SortCall
SpecSort == InitSort /\ [][NextSort]_vars

InitRel == RelInit /\ SortIdle /\ ParseIdle /\ UploadInit
NextRel == RelCall
SpecRel == InitRel /\ [][NextRel]_vars

InitParse == ParseInit /\ SortIdle /\ RelIdle /\ UploadInit
NextParse == ParseCall
SpecParse == InitParse /\ [][NextParse]_vars

(***************************************************************************)
(* Properties                                                              *)
(***************************************************************************)
Occurrences(list, x) == Cardinality({i \in 1..Len(list) : list[i] = x})
Elements(list) == {list[i] : i \in 1..Len(list)}

\* C1: two uploads in flight together whose batches share a key that was not in the
\* table when either arrived: exactly one INSERT of the key is accepted, every other
\* one is counted as failed, and the table never holds a tuple twice.
C1_OneAcceptancePerKey ==
    /\ \A i, j \in 1..Len(timetable) : timetable[i] = timetable[j] => i = j
    /\ \A h \in Handlers : pc[h] = "done" /\ message[h].doc # 0 =>
           /\ failed[h] + Len(accepted[h]) = Len(batch[h].records)
           /\ \A key \in Elements(batch[h].records) :
                  failed[h] >= Occurrences(batch[h].records, key) - Occurrences(accepted[h], key)
    /\ \A h1, h2 \in Handlers :
           (h1 # h2 /\ pc[h1] = "done" /\ pc[h2] = "done") =>
               \A key \in Elements(batch[h1].records) \cap Elements(batch[h2].records) :
                   /\ Occurrences(accepted[h1], key) + Occurrences(accepted[h2], key) <= 1
                   /\ (key \notin Elements(seen[h1]) /\ key \notin Elements(seen[h2])) =>
                          \/ Occurrences(accepted[h1], key) + Occurrences(accepted[h2], key) = 1
                          \/ \E h3 \in Handlers \ {h1, h2} : key \in Elements(accepted[h3])

\* C1 witness: both requests arrived before either was answered, their batches share
\* a key, the later arrival got it accepted and the earlier one counted it as failed
C1_Witness ==
    /\ pc[1] = "done" /\ pc[2] = "done"
    /\ prior[1] = {} /\ prior[2] = {}
    /\ \E key \in Elements(batch[1].records) \cap Elements(batch[2].records) :
           /\ key \in Elements(accepted[2])
           /\ key \notin Elements(accepted[1])
           /\ failed[1] > 0

\* C2: a document uploaded again after its upload was answered (same file name, same
\* table read back) adds nothing and reports zero records added, all of them rejected
C2_SecondUploadReportsZero ==
    \A h \in Handlers :
        (/\ pc[h] = "done"
         /\ message[h].doc # 0
         /\ raw_csv[h] = message[h].doc
         /\ <<message[h].doc, message[h].doc>> \in prior[h]) =>
            /\ accepted[h] = <<>>
            /\ response[h] = Response(0, Len(batch[h].records))

\* C3: a file name with no six-digit token, or with more than one, makes the upload
\* fail with an error and insert nothing
C3_AmbiguousDateTokenAborts ==
    \A h \in Handlers :
        (/\ pc[h] \in {"done", "failed"}
         /\ message[h].doc # 0
         /\ Len(DateTokens(Documents[message[h].doc].filename)) # 1) =>
            /\ pc[h] = "failed"
            /\ accepted[h] = <<>>

\* C4: a completed row whose Time field has no four digits (the one case in which
\* re.search returns None) does not abort the upload: the request is answered and the
\* row is counted as a failure
C4_BadTimeRejectsOnlyTheRow ==
    \A h \in Handlers :
        batch[h].err = "AttributeError" => pc[h] = "done" /\ failed[h] >= 1

\* C5: the records of the i-th block that starts at a 'Time' header are dated
\* reference_monday + i, whatever precedes the first header
C5_SectionDates ==
    parsePc = "done" =>
        LET monday == RollBackToMonday(ToOrdinal(Strptime(FirstDateToken(parseName)[1])[1]))
            sections == Tail(ReSplit(parseText, 1, <<<<>>>>))
        IN parseOut.parsed = ReadChunks(sections, 1, <<>>, <<>>, monday).records

\* C6: in every section under the six-column header, the logical rows are one per
\* physical row with all five mandatory cells filled, each cell the single-space join
\* (newlines collapsed) of the column since the previous such row; what is left in the
\* buffer at the end of the section yields nothing
C6_RowsReconstructed ==
    LET chunks == Chunks(parseText)
        Closing(data) == {k \in 1..Len(data) : \A c \in 1..5 : data[k][c] # ""}
        Nth(set, n) == CHOOSE k \in set : Cardinality({j \in set : j <= k}) = n
        Expected(data) ==
            [n \in 1..Cardinality(Closing(data)) |->
                LET last == Nth(Closing(data), n)
                    first == IF n = 1 THEN 1 ELSE Nth(Closing(data), n - 1) + 1
                IN [c \in 1..Len(Header) |->
                       ReplaceNewlines(Join([b \in 1..(last - first + 1) |-> data[first + b - 1][c]]))]]
    IN (/\ parsePc # "call"
        /\ Len(DateTokens(parseName)) = 1
        /\ Strptime(FirstDateToken(parseName)[1]) # <<>>
        /\ \A c \in 1..Len(chunks) :
               /\ chunks[c][1] = Header
               /\ \A k \in 1..Len(chunks[c]) : Len(chunks[c][k]) \in {0, Len(Header)}) =>
           /\ Len(parseOut.rows) = Len(chunks)
           /\ \A c \in 1..Len(chunks) :
                  parseOut.rows[c] = Expected(SelectSeq(Tail(chunks[c]), LAMBDA line : line # <<>>))

\* C7: sort_bus_records returns, and leaves a permutation of its input in ascending
\* order of departure_time in which records of equal departure_time keep their order
C7_SortedStablePermutation ==
    sortPc = "done" =>
        /\ Len(sortOut) = Len(sortIn)
        /\ \A r \in Elements(sortIn) \cup Elements(sortOut) :
               Occurrences(sortOut, r) = Occurrences(sortIn, r)
        /\ \A k \in 1..(Len(sortOut) - 1) : sortOut[k][1] <= sortOut[k + 1][1]
        /\ \A t \in SortTimes :
               SelectSeq(sortOut, LAMBDA r : r[1] = t) = SelectSeq(sortIn, LAMBDA r : r[1] = t)

\* C7 witness: a list sorted that was out of order and held two different records of
\* the same departure_time
C7_Witness ==
    /\ sortPc = "done"
    /\ Len(sortIn) = MaxLen
    /\ sortIn[1][1] = sortIn[2][1] /\ sortIn[1] # sortIn[2]
    /\ sortIn[MaxLen][1] < sortIn[1][1]
    /\ sortOut # sortIn

\* C8: a departure not before now and on a later calendar date is labelled 'tomorrow'
\* when the date is the next day, and 'in N days' with N the days between the dates
\* otherwise
C8_LaterDateLabel ==
    LET days == ToOrdinal(relBus) - ToOrdinal(relNow)
    IN (relPc = "done" /\ Timestamp(relBus) >= Timestamp(relNow) /\ days > 0) =>
           relOut = IF days = 1 THEN "tomorrow" ELSE "in " \o ToString(days) \o " days"

\* C9: the batch parsed from a document holds no 6-tuple twice
C9_BatchKeysDistinct ==
    parsePc = "done" =>
        \A i, j \in 1..Len(parseOut.records) :
            parseOut.records[i] = parseOut.records[j] => i = j

\* C10: a text that is not empty and has no line starting with 'Time' yields no
\* records and no error
C10_NoHeaderNoRecords ==
    (/\ parsePc # "call"
     /\ Len(DateTokens(parseName)) = 1
     /\ Strptime(FirstDateToken(parseName)[1]) # <<>>
     /\ \E k \in 1..Len(parseText) : parseText[k] # <<>>
     /\ \A k \in 1..Len(parseText) : ~StartsWithTime(parseText[k])) =>
        /\ parseOut.err = ""
        /\ parseOut.records = <<>>

====
